---- MODULE Spec2Model ----
(***************************************************************************)
(* http_stress_test (src/src/main.rs): main builds one request from the    *)
(* command line, spawns `count` tokio tasks that each execute the request  *)
(* and bump one of two atomic counters, joins them and prints a summary.   *)
(*                                                                         *)
(* Strings are sequences of one-character strings.  Wall-clock time, the   *)
(* timestamp of a log line and the colours of the console output are not   *)
(* modelled.  Writes to the log file are taken to succeed.                 *)
(***************************************************************************)
EXTENDS Integers, Sequences, FiniteSets, TLC

VARIABLES
    args,       \* the parsed command line (struct Args), fixed for a run
    pc,         \* position of main
    exitCode,   \* None while the process runs, else Some(exit status)
    timer,      \* remaining iterations of the countdown loop
    request,    \* result of the last build_request call, NoRequest before it
    tasks,      \* spawned tasks in spawn order: position, outcome, pacing
    successes,  \* AtomicUsize successes
    fails,      \* AtomicUsize fails
    sent,       \* requests handed to the network by client.execute
    sleeps,     \* completed pacing suspensions of the launch loop
    joined,     \* join handles the join loop has awaited
    summary,    \* the counts and elapsed time main read, and whether it
                \* printed them
    log         \* lines of the log file http_stress_test.log

vars == <<args, pc, exitCode, timer, request, tasks, successes, fails, sent,
          sleeps, joined, summary, log>>

----------------------------------------------------------------------------
(* Bounds of the model *)

MaxCount == 3          \* --count ranges over 0..MaxCount
MaxDelay == 1          \* --delay ranges over 0..MaxDelay
MaxHeaders == 2        \* -H strings on a command line
MaxLatency == 2        \* milliseconds main spends outside its pacing sleeps
MaxFairCount == 2      \* --count ranges over 0..MaxFairCount under FairSpec

(* Program constants *)

timer_seconds == 3
EXIT_CONFIG == 1       \* exit(1) of build_request
EXIT_PANIC == 101      \* exit status of a Rust panic (unwrap on Err) in main
EXIT_OK == 0           \* main returns

(* Option<T>: None is the empty sequence, Some(x) the one-element sequence *)
None == <<>>
Some(x) == <<x>>

----------------------------------------------------------------------------
(* Strings *)

starts_with(s, p) == Len(s) >= Len(p) /\ SubSeq(s, 1, Len(p)) = p

RECURSIVE trim_start(_)
trim_start(s) ==
    IF s # <<>> /\ Head(s) = " " THEN trim_start(Tail(s)) ELSE s

RECURSIVE trim_end(_)
trim_end(s) ==
    IF s # <<>> /\ s[Len(s)] = " " THEN trim_end(SubSeq(s, 1, Len(s) - 1)) ELSE s

trim(s) == trim_end(trim_start(s))

(* str::split: the pieces between the separators; n separators give n + 1 *)
(* pieces, empty ones included.                                           *)
RECURSIVE split(_, _)
split(s, sep) ==
    IF \A i \in 1..Len(s) : s[i] # sep
    THEN <<s>>
    ELSE LET i == CHOOSE j \in 1..Len(s) :
                      s[j] = sep /\ \A k \in 1..(j - 1) : s[k] # sep
         IN  <<SubSeq(s, 1, i - 1)>> \o split(SubSeq(s, i + 1, Len(s)), sep)

HTTP == <<"h", "t", "t", "p", ":", "/", "/">>
HTTPS == <<"h", "t", "t", "p", "s", ":", "/", "/">>

(* faulty variant: the plain scheme is the default *)
add_http_if_missing_plain(url) ==
    IF starts_with(url, HTTP) \/ starts_with(url, HTTPS)
    THEN url
    ELSE HTTP \o url

(* lines 226-232 *)
add_http_if_missing(url) ==
    IF starts_with(url, HTTP) \/ starts_with(url, HTTPS)
    THEN url
    ELSE HTTPS \o url

----------------------------------------------------------------------------
(* Command lines *)

(* enum HttpMethod *)
HttpMethod == {"GET", "POST", "PUT", "DELETE", "PATCH", "HEAD", "OPTIONS"}

(* impl From<HttpMethod> for Method *)
MethodFrom(method) ==
    CASE method = "GET"     -> "Method::GET"
      [] method = "POST"    -> "Method::POST"
      [] method = "PUT"     -> "Method::PUT"
      [] method = "DELETE"  -> "Method::DELETE"
      [] method = "PATCH"   -> "Method::PATCH"
      [] method = "HEAD"    -> "Method::HEAD"
      [] method = "OPTIONS" -> "Method::OPTIONS"

(* -H strings: "k:v", "k: v", " k:v ", "k:", "kv", "k:v:w", ":v", "k k:v", "" *)
HeaderStrings ==
    { <<"k", ":", "v">>, <<"k", ":", " ", "v">>, <<" ", "k", ":", "v", " ">>,
      <<"k", ":">>, <<"k", "v">>, <<"k", ":", "v", ":", "w">>, <<":", "v">>,
      <<"k", " ", "k", ":", "v">>, <<>> }

(* --addr strings: "h", "http://h", "https://h", "", "http://", "h h" *)
Addrs ==
    { <<"h">>, HTTP \o <<"h">>, HTTPS \o <<"h">>, <<>>, HTTP, <<"h", " ", "h">> }

(* status codes a server answers with, and values of --expected *)
StatusCodes == {200, 404}

TokenChars == {"h", "k", "v", "w"}
ValueChars == TokenChars \cup {" ", ":", "/"}

(* reqwest::header::HeaderName::from_bytes is Ok *)
HeaderNameOk(key) == key # <<>> /\ \A i \in 1..Len(key) : key[i] \in TokenChars

(* reqwest::header::HeaderValue::from_str is Ok *)
HeaderValueOk(value) == \A i \in 1..Len(value) : value[i] \in ValueChars

(* Url::from_str is Ok: the URL carries a scheme and a host without spaces *)
UrlOk(url) ==
    LET rest == IF starts_with(url, HTTPS) THEN SubSeq(url, Len(HTTPS) + 1, Len(url))
                ELSE IF starts_with(url, HTTP) THEN SubSeq(url, Len(HTTP) + 1, Len(url))
                ELSE <<>>
        host == Head(split(rest, "/"))
    IN  host # <<>> /\ \A i \in 1..Len(host) : host[i] \in TokenChars

----------------------------------------------------------------------------
(* build_request *)

Exit(code, at) == [kind |-> "exit", code |-> code, at |-> at]

(* the (key, value) pair of one header string whose split has two parts *)
HeaderPair(header) ==
    LET parts == split(trim(header), ":")
    IN  <<trim(parts[1]), trim(parts[2])>>

(* collect() into a HashMap: a later pair replaces an earlier one of its key *)
RECURSIVE headers_map(_)
headers_map(headers) ==
    IF headers = <<>>
    THEN <<>>
    ELSE LET init == headers_map(SubSeq(headers, 1, Len(headers) - 1))
             kv == HeaderPair(headers[Len(headers)])
             keys == {init[i][1] : i \in 1..Len(init)}
         IN  IF kv[1] \in keys
             THEN [i \in 1..Len(init) |-> IF init[i][1] = kv[1] THEN kv ELSE init[i]]
             ELSE Append(init, kv)

(* faulty variant: only too few parts are rejected *)
header_malformed_lt(header) == Len(split(trim(header), ":")) < 2
(* line 186: the split of a trimmed header string has not two parts *)
header_malformed(header) == Len(split(trim(header), ":")) # 2

(* faulty variant: DELETE may carry a body too *)
body_allowed_delete(method) ==
    method \in {"Method::POST", "Method::PUT", "Method::PATCH", "Method::DELETE"}
(* line 215: the methods that may carry a body *)
body_allowed(method) ==
    method \in {"Method::POST", "Method::PUT", "Method::PATCH"}

build_request(a) ==
    LET headers == IF a.headers = None THEN <<>> ELSE a.headers[1]
        method == MethodFrom(a.method)
        url == add_http_if_missing(a.addr)
    IN  IF \E i \in 1..Len(headers) : header_malformed(headers[i])
        THEN Exit(EXIT_CONFIG, "header")
        ELSE IF ~UrlOk(url)
        THEN Exit(EXIT_CONFIG, "url")
        ELSE LET map == headers_map(headers)
             IN  IF \E i \in 1..Len(map) :
                        ~HeaderNameOk(map[i][1]) \/ ~HeaderValueOk(map[i][2])
                 THEN Exit(EXIT_PANIC, "unwrap")
                 ELSE IF a.body # None
                 THEN IF body_allowed(method)
                      THEN [kind |-> "request", method |-> method, url |-> url,
                            headers |-> map, body |-> a.body]
                      ELSE Exit(EXIT_CONFIG, "body")
                 ELSE [kind |-> "request", method |-> method, url |-> url,
                       headers |-> map, body |-> None]

----------------------------------------------------------------------------
(* The log file *)

Info(msg) == [tag |-> "Info", msg |-> msg]
Error(msg) == [tag |-> "Error", msg |-> msg]

(* impl ToString for LogLevel *)
(* faulty variant: every level prints as INFO *)
to_string_info(l) == "INFO"
to_string(l) == IF l.tag = "Info" THEN "INFO" ELSE "ERROR"

(* faulty variant: the file is truncated whether logging is on or not *)
clear_log_always(file, enabled) == <<>>
(* lines 275-281 *)
clear_log(file, enabled) == IF enabled THEN <<>> ELSE file

(* one line "[<time> <LEVEL>] <msg>" appended to the file *)
log_to_file(file, l, enabled) ==
    IF enabled THEN Append(file, [level |-> to_string(l), msg |-> l.msg]) ELSE file

(* what an earlier run may have left in the file *)
PriorLogs == {<<>>, <<[level |-> "INFO", msg |-> "Done"]>>}

----------------------------------------------------------------------------
(* Initial states *)

(* sequences over S of length 1..n *)
Vecs(S, n) == UNION {[1..k -> S] : k \in 1..n}

(* runs of every length, pacing, expected code and logging choice *)
RunConfigs ==
    [addr : {<<"h">>}, count : 0..MaxCount, method : {"GET"}, body : {None},
     delay : 0..MaxDelay, expected_code : StatusCodes, logs : BOOLEAN,
     headers : {None}]

(* one-request runs over every method, body, address and header list *)
BuildConfigs ==
    [addr : Addrs, count : {1}, method : HttpMethod,
     body : {None, Some(<<"b">>)}, delay : {0}, expected_code : {200},
     logs : {FALSE},
     headers : {None} \cup {Some(v) : v \in Vecs(HeaderStrings, MaxHeaders)}]

Configs == RunConfigs \cup BuildConfigs

NoRequest == [kind |-> "none"]
NoOutcome == [kind |-> "none", status |-> 0]
Outcomes ==
    {[kind |-> "response", status |-> c] : c \in StatusCodes}
        \cup {[kind |-> "error", status |-> 0]}

NoSummary ==
    [read |-> FALSE, successes |-> 0, fails |-> 0, elapsed |-> 0,
     printed |-> FALSE]

Init ==
    /\ args \in Configs
    /\ log \in PriorLogs
    /\ pc = "clear_log"
    /\ exitCode = None
    /\ timer = timer_seconds
    /\ request = NoRequest
    /\ tasks = <<>>
    /\ successes = 0
    /\ fails = 0
    /\ sent = 0
    /\ sleeps = 0
    /\ joined = 0
    /\ summary = NoSummary

----------------------------------------------------------------------------
(* main *)

(* line 58 *)
ClearLog ==
    /\ pc = "clear_log"
    /\ log' = clear_log(log, args.logs)
    /\ pc' = "build_request"
    /\ UNCHANGED <<args, exitCode, timer, request, tasks, successes, fails, sent,
                   sleeps, joined, summary>>

(* faulty variant: the result of the first call is not looked at *)
FirstBuild_unchecked ==
    /\ pc = "build_request"
    /\ request' = NoRequest
    /\ pc' = "countdown"
    /\ UNCHANGED <<args, exitCode, timer, tasks, successes, fails, sent, sleeps,
                   joined, summary, log>>

(* line 60: the first build_request; exit(1) and a panic end the process *)
FirstBuild ==
    /\ pc = "build_request"
    /\ LET r == build_request(args)
       IN  /\ request' = r
           /\ IF r.kind = "request"
              THEN pc' = "countdown" /\ UNCHANGED exitCode
              ELSE pc' = "exited" /\ exitCode' = Some(r.code)
    /\ UNCHANGED <<args, timer, tasks, successes, fails, sent, sleeps, joined,
                   summary, log>>

(* lines 62-71: one iteration of the countdown *)
Countdown ==
    /\ pc = "countdown"
    /\ timer > 0
    /\ timer' = timer - 1
    /\ UNCHANGED <<args, pc, exitCode, request, tasks, successes, fails, sent,
                   sleeps, joined, summary, log>>

(* lines 73-84: the counters are created and the launch loop is entered *)
Start ==
    /\ pc = "countdown"
    /\ timer = 0
    /\ successes' = 0
    /\ fails' = 0
    /\ pc' = "loop"
    /\ UNCHANGED <<args, exitCode, timer, request, tasks, sent, sleeps, joined,
                   summary, log>>

(* faulty variants: one launch too many; no launch after a failure; no *)
(* launch while an earlier task runs                                   *)
more_to_launch_le(launched, count) == launched <= count
more_to_launch_until_fail(launched, count) == launched < count /\ fails = 0
more_to_launch_sequential(launched, count) ==
    launched < count /\ \A i \in 1..Len(tasks) : tasks[i].pc = "done"
(* line 85: the range 0..count has a next element *)
more_to_launch(launched, count) == launched < count

(* faulty variant: a delay of one millisecond is skipped *)
pacing_gt(delay) == delay > 1
(* line 92: the pacing delay is taken *)
pacing(delay) == delay # 0

(* lines 85-94: the head of one iteration, with its build_request call *)
LoopBuild ==
    /\ pc = "loop"
    /\ more_to_launch(Len(tasks), args.count)
    /\ LET r == build_request(args)
       IN  /\ request' = r
           /\ IF r.kind = "request"
              THEN pc' = (IF pacing(args.delay) THEN "sleep" ELSE "spawn")
                   /\ UNCHANGED exitCode
              ELSE pc' = "exited" /\ exitCode' = Some(r.code)
    /\ UNCHANGED <<args, timer, tasks, successes, fails, sent, sleeps, joined,
                   summary, log>>

(* line 93: time::sleep(delay).await *)
Sleep ==
    /\ pc = "sleep"
    /\ sleeps' = sleeps + 1
    /\ pc' = "spawn"
    /\ UNCHANGED <<args, exitCode, timer, request, tasks, successes, fails, sent,
                   joined, summary, log>>

(* line 96: task::spawn; the handle is pushed on tasks *)
Spawn ==
    /\ pc = "spawn"
    /\ tasks' = Append(tasks, [pc |-> "spawned", outcome |-> NoOutcome,
                               sleeps |-> sleeps])
    /\ pc' = "loop"
    /\ UNCHANGED <<args, exitCode, timer, request, successes, fails, sent, sleeps,
                   joined, summary, log>>

(* line 85: the range 0..count is exhausted *)
LoopEnd ==
    /\ pc = "loop"
    /\ ~more_to_launch(Len(tasks), args.count)
    /\ pc' = "join"
    /\ UNCHANGED <<args, exitCode, timer, request, tasks, successes, fails, sent,
                   sleeps, joined, summary, log>>

(* faulty variants: the handle is ready once the task has started; once *)
(* the task has incremented its counter                                 *)
finished_started(i) == tasks[i].pc # "spawned"
finished_counted(i) == tasks[i].pc \in {"text", "log", "done"}
(* the JoinHandle of task i is ready *)
finished(i) == tasks[i].pc = "done"

(* lines 140-142: task.await on the next handle *)
Join ==
    /\ pc = "join"
    /\ joined < Len(tasks)
    /\ finished(joined + 1)
    /\ joined' = joined + 1
    /\ UNCHANGED <<args, pc, exitCode, timer, request, tasks, successes, fails,
                   sent, sleeps, summary, log>>

(* lines 84, 144: start_time.elapsed() in milliseconds.  time::sleep lasts *)
(* at least its duration; whatever the sleeps overran and every other step  *)
(* of main took since start_time, the wait of the join loop for the         *)
(* requests included, is the latency.                                       *)
elapsed_time(slept, delay, latency) == slept * delay + latency

(* lines 144-146: the elapsed time and the loads of fails and successes *)
Read(latency) ==
    /\ pc = "join"
    /\ joined >= Len(tasks)
    /\ summary' = [read |-> TRUE, successes |-> successes, fails |-> fails,
                   elapsed |-> elapsed_time(sleeps, args.delay, latency),
                   printed |-> FALSE]
    /\ pc' = "report"
    /\ UNCHANGED <<args, exitCode, timer, request, tasks, successes, fails, sent,
                   sleeps, joined, log>>

(* lines 147-152: println of the summary *)
Report ==
    /\ pc = "report"
    /\ summary' = [summary EXCEPT !.printed = TRUE]
    /\ pc' = "log_summary"
    /\ UNCHANGED <<args, exitCode, timer, request, tasks, successes, fails, sent,
                   sleeps, joined, log>>

(* lines 154-164: the summary goes to the log and main returns *)
LogSummary ==
    /\ pc = "log_summary"
    /\ log' = log_to_file(log, Info("Done"), args.logs)
    /\ pc' = "done"
    /\ exitCode' = Some(EXIT_OK)
    /\ UNCHANGED <<args, timer, request, tasks, successes, fails, sent, sleeps,
                   joined, summary>>

----------------------------------------------------------------------------
(* The spawned task, lines 96-137 *)

(* faulty variants: an update on top of another is lost; an update counts twice *)
fetch_add_lost(v, n) == IF v = 0 THEN v + n ELSE v
fetch_add_twice(v, n) == v + n + n
(* line 100: AtomicUsize::fetch_add, one atomic read-modify-write *)
fetch_add(v, n) == v + n

(* faulty variant: a status below the expected one passes too *)
is_success_le(outcome, expected_code) ==
    outcome.kind = "response" /\ outcome.status <= expected_code
(* lines 98-99: a response with the expected status *)
is_success(outcome, expected_code) ==
    outcome.kind = "response" /\ ~(outcome.status # expected_code)

Running == exitCode = None

(* line 97: client.execute(request) hands the request to the network *)
TaskSend(i) ==
    /\ Running
    /\ tasks[i].pc = "spawned"
    /\ tasks' = [tasks EXCEPT ![i].pc = "execute"]
    /\ sent' = sent + 1
    /\ UNCHANGED <<args, pc, exitCode, timer, request, successes, fails, sleeps,
                   joined, summary, log>>

(* line 97: the await resolves to Ok(response) or Err(why) *)
Resolve(i, o) ==
    /\ Running
    /\ tasks[i].pc = "execute"
    /\ tasks' = [tasks EXCEPT ![i].pc = "resolved", ![i].outcome = o]
    /\ UNCHANGED <<args, pc, exitCode, timer, request, successes, fails, sent,
                   sleeps, joined, summary, log>>

(* lines 98-100, 119, 127: the match and the fetch_add of its arm *)
TaskRecord(i) ==
    /\ Running
    /\ tasks[i].pc = "resolved"
    /\ LET o == tasks[i].outcome
       IN  IF o.kind = "response"
           THEN IF ~is_success(o, args.expected_code)
                THEN /\ fails' = fetch_add(fails, 1)
                     /\ tasks' = [tasks EXCEPT ![i].pc = "text"]
                     /\ UNCHANGED successes
                ELSE /\ successes' = fetch_add(successes, 1)
                     /\ tasks' = [tasks EXCEPT ![i].pc = "log"]
                     /\ UNCHANGED fails
           ELSE /\ fails' = fetch_add(fails, 1)
                /\ tasks' = [tasks EXCEPT ![i].pc = "log"]
                /\ UNCHANGED successes
    /\ UNCHANGED <<args, pc, exitCode, timer, request, sent, sleeps, joined,
                   summary, log>>

(* line 112: response.text().await on the unexpected-status arm *)
TaskText(i) ==
    /\ Running
    /\ tasks[i].pc = "text"
    /\ tasks' = [tasks EXCEPT ![i].pc = "log"]
    /\ UNCHANGED <<args, pc, exitCode, timer, request, successes, fails, sent,
                   sleeps, joined, summary, log>>

(* the LogLevel value the arm of an outcome logs *)
TaskLogLevel(o, expected_code) ==
    IF o.kind = "response"
    THEN IF ~is_success(o, expected_code)
         THEN Error("Got Unexpected Code")
         ELSE Info("Got Response (as expected)")
    ELSE Error("Sending request failed")

(* lines 106-117, 120-123, 129-134: log_to_file, then the task ends *)
TaskLog(i) ==
    /\ Running
    /\ tasks[i].pc = "log"
    /\ log' = log_to_file(log, TaskLogLevel(tasks[i].outcome, args.expected_code),
                          args.logs)
    /\ tasks' = [tasks EXCEPT ![i].pc = "done"]
    /\ UNCHANGED <<args, pc, exitCode, timer, request, successes, fails, sent,
                   sleeps, joined, summary>>

Spawned == 1..Len(tasks)

Main ==
    \/ ClearLog \/ FirstBuild \/ Countdown \/ Start \/ LoopBuild \/ Sleep
    \/ Spawn \/ LoopEnd \/ Join \/ Report \/ LogSummary
    \/ \E latency \in 0..MaxLatency : Read(latency)

Next ==
    \/ Main
    \/ \E i \in Spawned : TaskSend(i)
    \/ \E i \in Spawned, o \in Outcomes : Resolve(i, o)
    \/ \E i \in Spawned : TaskRecord(i)
    \/ \E i \in Spawned : TaskText(i)
    \/ \E i \in Spawned : TaskLog(i)

Spec == Init /\ [][Next]_vars

(* The runs whose progress is followed to their end: valid command lines.  *)
FairConfigs == {c \in RunConfigs : c.count <= MaxFairCount}

InitFair == Init /\ args \in FairConfigs

(* a step of task i itself *)
TaskStep(i) ==
    /\ i \in Spawned
    /\ (TaskSend(i) \/ TaskRecord(i) \/ TaskText(i) \/ TaskLog(i))

(* #[tokio::main]: the runtime keeps polling main and every task that can  *)
(* continue, and its timer ends every sleep.  Nothing makes the network    *)
(* answer: Resolve has no fairness, client.execute may stay pending.       *)
FairSpec ==
    /\ InitFair
    /\ [][Next]_vars
    /\ WF_vars(Main)
    /\ \A i \in 1..MaxFairCount : WF_vars(TaskStep(i))

----------------------------------------------------------------------------
(* Vocabulary of the properties *)

(* task i has performed its fetch_add *)
Recorded(i) == tasks[i].pc \in {"text", "log", "done"}

(* task i leaves the match of lines 97-100 in this step *)
Records(i) == tasks[i].pc = "resolved" /\ tasks'[i].pc # "resolved"

Expected(o) == o.kind = "response" /\ o.status = args.expected_code

Succeeded == {i \in Spawned : Recorded(i) /\ Expected(tasks[i].outcome)}
Failed == {i \in Spawned : Recorded(i) /\ ~Expected(tasks[i].outcome)}

(* lines of a log file with a given level *)
Lines(file, level) == Cardinality({i \in 1..Len(file) : file[i].level = level})

Colons(header) == Cardinality({i \in 1..Len(header) : header[i] = ":"})

HasBadHeader ==
    /\ args.headers # None
    /\ \E i \in 1..Len(args.headers[1]) : Colons(args.headers[1][i]) # 1

Built == pc \notin {"clear_log", "build_request"}

(* no -H option and the address "h" *)
PlainTarget == args.headers = None /\ args.addr = <<"h">>

----------------------------------------------------------------------------
(* C1: where main reads the counters for the summary, after the join loop, *)
(* successes + fails equals count, whatever the interleaving of the tasks  *)
(* and whatever the mix of outcomes.                                       *)
C1_CountsAddUp ==
    summary.read => summary.successes + summary.fails = args.count

C1_Witness ==
    /\ summary.read
    /\ args.count = MaxCount
    /\ \E i, j, k \in Spawned :
          /\ Expected(tasks[i].outcome)
          /\ tasks[j].outcome.kind = "response" /\ ~Expected(tasks[j].outcome)
          /\ tasks[k].outcome.kind = "error"

(* C2: the counts are read and the summary is printed only after each of   *)
(* the count launched executions has incremented a counter.                *)
C2_Barrier ==
    (summary.read \/ summary.printed \/ pc \in {"report", "log_summary", "done"})
        => /\ Len(tasks) = args.count
           /\ \A i \in Spawned : Recorded(i)

C2_Witness ==
    /\ summary.printed
    /\ args.count = MaxCount
    /\ \A i \in Spawned : Recorded(i)

(* C3: a task increments successes exactly when it got a response whose    *)
(* status equals the expected code; with any other status, and with a      *)
(* transport error, it increments fails; nothing else moves the counters.  *)
C3_Classify ==
    [][/\ \A i \in Spawned :
             Records(i) =>
                 IF Expected(tasks[i].outcome)
                 THEN successes' = successes + 1 /\ fails' = fails
                 ELSE fails' = fails + 1 /\ successes' = successes
       /\ (successes' # successes \/ fails' # fails)
             => \E i \in Spawned : Records(i)]_vars

C3_Witness ==
    /\ successes = 1
    /\ fails = 2
    /\ \E i, j, k \in Spawned :
          /\ Recorded(i) /\ Expected(tasks[i].outcome)
          /\ Recorded(j) /\ tasks[j].outcome.kind = "response"
                         /\ tasks[j].outcome.status # args.expected_code
          /\ Recorded(k) /\ tasks[k].outcome.kind = "error"

(* C4: once k executions have performed their increment, successes + fails *)
(* is k, in every interleaving; no increment is lost or counted twice.     *)
C4_NoLostUpdate ==
    /\ successes + fails = Cardinality({i \in Spawned : Recorded(i)})
    /\ successes = Cardinality(Succeeded)
    /\ fails = Cardinality(Failed)

(* two executions have incremented and are still in flight, a third has not *)
C4_Witness ==
    /\ successes + fails = 2
    /\ \E i, j, k \in Spawned :
          /\ i # j
          /\ tasks[i].pc \in {"text", "log"}
          /\ tasks[j].pc \in {"text", "log"}
          /\ tasks[k].pc \in {"spawned", "execute", "resolved"}

(* C5: with a header string that has not exactly one ':', the first        *)
(* build_request ends the process with exit code 1; no task is spawned and *)
(* no request is sent.                                                     *)
C5_MalformedHeaderExits ==
    HasBadHeader =>
        /\ tasks = <<>>
        /\ sent = 0
        /\ pc \in {"clear_log", "build_request", "exited"}
        /\ pc = "exited" => exitCode = Some(EXIT_CONFIG)

(* a well-formed header followed by a malformed one *)
C5_Witness ==
    /\ pc = "exited"
    /\ exitCode = Some(EXIT_CONFIG)
    /\ args.headers # None
    /\ Len(args.headers[1]) = 2
    /\ Colons(args.headers[1][1]) = 1
    /\ Colons(args.headers[1][2]) = 2

(* C6: once build_request has run with a body supplied, the method GET,    *)
(* DELETE, HEAD or OPTIONS has ended the process without a request (with   *)
(* exit code 1 whenever the header names passed the unwrap of lines        *)
(* 207-212), and with POST, PUT or PATCH a request that was built carries  *)
(* the body and is built for a plain target; without a body no call fails  *)
(* at the method check, and a plain target gives a request for every       *)
(* method.                                                                 *)
C6_BodyNeedsMethod ==
    Built =>
        /\ (args.body # None /\ args.method \in {"GET", "DELETE", "HEAD", "OPTIONS"})
              => /\ pc = "exited"
                 /\ request.kind = "exit"
                 /\ sent = 0
                 /\ tasks = <<>>
                 /\ request.at # "unwrap" => exitCode = Some(EXIT_CONFIG)
                 /\ PlainTarget => request.at = "body"
        /\ (args.body # None /\ args.method \in {"POST", "PUT", "PATCH"})
              => /\ request.kind = "request" => request.body = args.body
                 /\ PlainTarget => request.kind = "request"
        /\ args.body = None
              => /\ request.kind = "exit" => request.at # "body"
                 /\ PlainTarget => request.kind = "request"

C6_Witness ==
    /\ pc = "exited"
    /\ args.body # None
    /\ args.method = "DELETE"
    /\ request.kind = "exit"
    /\ request.at = "body"
    /\ exitCode = Some(EXIT_CONFIG)

(* C7: a failed execution never aborts the run: no process exit follows a  *)
(* launch; after a failure a run that is not over can still take a step    *)
(* (a launch, a step of a task, the join or the report); and a run that    *)
(* ends has launched all count executions, each has recorded and finished, *)
(* and the summary was printed; also when every execution failed.          *)
C7_FailureDoesNotAbort ==
    /\ (tasks # <<>> \/ fails > 0) => pc # "exited"
    /\ (fails > 0 /\ pc \notin {"done", "exited"}) =>
          \/ ENABLED (Sleep \/ Spawn \/ LoopEnd \/ Join \/ Read(0) \/ Report
                         \/ LogSummary)
          \/ pc = "loop" /\ Len(tasks) < args.count
          \/ \E i \in Spawned :
                ENABLED (TaskSend(i) \/ TaskRecord(i) \/ TaskText(i) \/ TaskLog(i)
                            \/ \E o \in Outcomes : Resolve(i, o))
    /\ pc = "done" =>
          /\ exitCode = Some(EXIT_OK)
          /\ Len(tasks) = args.count
          /\ \A i \in Spawned : tasks[i].pc = "done"
          /\ summary.printed
          /\ summary.fails = Cardinality(Failed)

(* every execution failed, in both ways, and the summary was reported *)
C7_Witness ==
    /\ pc = "done"
    /\ args.count = MaxCount
    /\ summary.printed
    /\ summary.fails = MaxCount
    /\ \E i, j \in Spawned :
          /\ tasks[i].outcome.kind = "error"
          /\ tasks[j].outcome.kind = "response"

(* C8: never more than count launches; every started execution has sent    *)
(* its request once, failed or not; a finished run has launched count       *)
(* executions and sent count requests.                                      *)
C8_ExactlyCount ==
    /\ Len(tasks) <= args.count
    /\ sent = Cardinality({i \in Spawned : tasks[i].pc # "spawned"})
    /\ pc = "done" => Len(tasks) = args.count /\ sent = args.count

C8_Witness ==
    /\ pc = "done"
    /\ args.count = MaxCount
    /\ sent = MaxCount
    /\ fails = MaxCount

(* C9 as stated: with delay > 0 the first launch has no pacing delay before *)
(* it, launch i has i - 1 before it, and a run of count launches makes      *)
(* count - 1 suspensions.                                                   *)
C9_Original ==
    args.delay > 0 =>
        /\ \A i \in Spawned : tasks[i].sleeps = i - 1
        /\ (pc = "done" /\ args.count > 0) => sleeps = args.count - 1

(* C9, amended: with delay > 0 every launch, the first included, has        *)
(* exactly one pacing delay before it, and a run of count launches makes    *)
(* count suspensions; with delay = 0 there is none.                         *)
C9_PacingBeforeEveryLaunch ==
    /\ args.delay > 0 =>
          /\ \A i \in Spawned : tasks[i].sleeps = i
          /\ pc = "spawn" => sleeps = Len(tasks) + 1
          /\ pc = "done" => sleeps = args.count
    /\ args.delay = 0 => sleeps = 0

C9_Witness ==
    /\ pc = "done"
    /\ args.delay > 0
    /\ args.count = MaxCount
    /\ sleeps = MaxCount
    /\ tasks[1].sleeps = 1

(* C10 as stated: after a run with logging, the log holds as many ERROR     *)
(* lines as failed executions and as many INFO lines as successful ones.    *)
C10_Original ==
    (pc = "done" /\ args.logs) =>
        /\ Lines(log, "ERROR") = Cardinality(Failed)
        /\ Lines(log, "INFO") = Cardinality(Succeeded)

(* C10, amended: the log holds as many ERROR lines as failed executions,    *)
(* and one INFO line per successful execution plus the INFO line of the     *)
(* summary.                                                                 *)
C10_LogLines ==
    (pc = "done" /\ args.logs) =>
        /\ Lines(log, "ERROR") = Cardinality(Failed)
        /\ Lines(log, "INFO") = Cardinality(Succeeded) + 1
        /\ Len(log) = args.count + 1

C10_Witness ==
    /\ pc = "done"
    /\ args.logs
    /\ args.count = MaxCount
    /\ Lines(log, "ERROR") = 2
    /\ Lines(log, "INFO") = 2
    /\ log[Len(log)].msg = "Done"

(* s is p followed by some rest *)
HasPrefix(s, p) == \E rest \in {SubSeq(s, n, Len(s)) : n \in 1..(Len(s) + 1)} : s = p \o rest

(* C11: the URL of every request that is built, and so of every request a  *)
(* task is launched with, is the address itself when the address begins    *)
(* with "http://" or "https://", and "https://" followed by the address    *)
(* otherwise; an address "h", "http://h" or "https://h" with no other      *)
(* configuration error does give a request.                                *)
C11_SchemeDefault ==
    /\ request.kind = "request" =>
          IF HasPrefix(args.addr, HTTP) \/ HasPrefix(args.addr, HTTPS)
          THEN request.url = args.addr
          ELSE request.url = HTTPS \o args.addr
    /\ tasks # <<>> => request.kind = "request"
    /\ (Built /\ args.headers = None /\ args.body = None
          /\ args.addr \in {<<"h">>, HTTP \o <<"h">>, HTTPS \o <<"h">>})
          => request.kind = "request"

(* a request was launched to an address that had no scheme *)
C11_Witness ==
    /\ tasks # <<>>
    /\ args.addr = <<"h">>
    /\ request.kind = "request"
    /\ request.url = <<"h", "t", "t", "p", "s", ":", "/", "/", "h">>

(* C12: the pair of counts main reads is fixed by the outcomes of the      *)
(* executions alone: successes is the number of executions whose outcome   *)
(* is a response with the expected status and fails the number of the      *)
(* others, in whatever order the executions recorded and completed.        *)
C12_OrderIndependent ==
    summary.read =>
        /\ summary.successes =
              Cardinality({i \in Spawned : Expected(tasks[i].outcome)})
        /\ summary.fails =
              Cardinality({i \in Spawned : ~Expected(tasks[i].outcome)})

(* the executions completed in the reverse of their launch order *)
C12_Witness ==
    /\ summary.read
    /\ args.logs
    /\ Len(tasks) = 3
    /\ tasks[1].outcome.kind = "error"
    /\ Expected(tasks[2].outcome)
    /\ tasks[3].outcome.kind = "response" /\ ~Expected(tasks[3].outcome)
    /\ Len(log) = 3
    /\ log[1].msg = "Got Unexpected Code"
    /\ log[2].msg = "Got Response (as expected)"
    /\ log[3].msg = "Sending request failed"

(* C13: with delay > 0 the elapsed time main reads after the join loop is   *)
(* at least (count - 1) * delay, whatever the latency.                      *)
C13_ElapsedLowerBound ==
    (summary.read /\ args.delay > 0) =>
        summary.elapsed >= (args.count - 1) * args.delay

(* the shortest run of MaxCount paced launches *)
C13_Witness ==
    /\ summary.read
    /\ args.delay > 0
    /\ args.count = MaxCount
    /\ summary.elapsed = MaxCount * args.delay

(* task i can take a step: its own, or the answer of the network *)
CanStep(i) ==
    ENABLED (TaskSend(i) \/ TaskRecord(i) \/ TaskText(i) \/ TaskLog(i)
                \/ \E o \in Outcomes : Resolve(i, o))

(* ENABLED LoopBuild, unfolded: build_request always returns *)
LoopBuildEnabled == pc = "loop" /\ more_to_launch(Len(tasks), args.count)

(* C14: in the launch loop main can always take its next step, whatever    *)
(* the launched tasks have done so far, and while main is suspended in a   *)
(* pacing delay every launched task that has not finished can take a step. *)
C14_PacingThrottlesLaunchOnly ==
    /\ pc = "loop" =>
          IF Len(tasks) < args.count THEN LoopBuildEnabled ELSE ENABLED LoopEnd
    /\ pc = "sleep" => ENABLED Sleep
    /\ pc = "spawn" => ENABLED Spawn
    /\ pc \in {"loop", "sleep", "spawn"} =>
          \A i \in Spawned : tasks[i].pc # "done" => CanStep(i)

(* main is in the delay before the third launch; the second execution has  *)
(* finished and the first has not even sent its request                    *)
C14_Witness ==
    /\ pc = "sleep"
    /\ Len(tasks) = 2
    /\ tasks[1].pc = "spawned"
    /\ tasks[2].pc = "done"

(* C15: with logging enabled clear_log empties the file before any request *)
(* is built or sent and every later step leaves it alone or appends one    *)
(* line; with logging disabled no step changes the file.                   *)
C15_LogFrame ==
    [][/\ args.logs =>
             IF pc = "clear_log"
             THEN log' = <<>> /\ request = NoRequest /\ sent = 0 /\ tasks = <<>>
             ELSE log' = log
                  \/ (Len(log') = Len(log) + 1 /\ SubSeq(log', 1, Len(log)) = log)
       /\ ~args.logs => log' = log]_vars

(* a run without logging has ended and the file still holds the old line *)
C15_Witness ==
    /\ pc = "done"
    /\ ~args.logs
    /\ log = <<[level |-> "INFO", msg |-> "Done"]>>
    /\ args.count = MaxCount

(* C16: in every state successes + fails <= launched executions <= count,  *)
(* and no step decreases a counter.                                        *)
C16_CountersBounded ==
    [][/\ successes + fails <= Len(tasks)
       /\ Len(tasks) <= args.count
       /\ successes' + fails' <= Len(tasks')
       /\ Len(tasks') <= args.count
       /\ successes' >= successes
       /\ fails' >= fails]_vars

(* both inequalities are strict *)
C16_Witness ==
    /\ successes + fails = 1
    /\ Len(tasks) = 2
    /\ args.count = MaxCount
    /\ args.count > Len(tasks)

(* C17: the process is ended by exit or panic only at the first            *)
(* build_request call: before the countdown, with no task spawned, no      *)
(* request sent and no counter touched; every later build_request call     *)
(* returned a request.                                                     *)
C17_ExitOnlyAtFirstBuild ==
    /\ pc = "exited" =>
          /\ timer = timer_seconds
          /\ tasks = <<>>
          /\ sent = 0
          /\ successes = 0 /\ fails = 0
          /\ request.kind = "exit"
          /\ exitCode = Some(request.code)
    /\ (Built /\ pc # "exited") => request.kind = "request"
    /\ tasks # <<>> => exitCode \in {None, Some(EXIT_OK)}

(* an address that does not parse ended the process at the first call *)
C17_Witness ==
    /\ pc = "exited"
    /\ exitCode = Some(EXIT_CONFIG)
    /\ request.at = "url"
    /\ timer = timer_seconds

(* C18: with logging enabled the "Done" line is written once, by main's    *)
(* last step, after the line of every execution: it is the last line of    *)
(* the log of a finished run and no log of an unfinished run holds it.     *)
C18_SummaryLast ==
    (args.logs /\ pc # "clear_log") =>
        /\ \A k \in 1..Len(log) : log[k].msg = "Done" => (k = Len(log) /\ pc = "done")
        /\ pc = "done" =>
              /\ Len(log) = Len(tasks) + 1
              /\ log[Len(log)].msg = "Done"
              /\ \A i \in Spawned : tasks[i].pc = "done"

(* the line before the summary is that of an unexpected status, which is   *)
(* logged after the await of the response body                             *)
C18_Witness ==
    /\ pc = "done"
    /\ args.logs
    /\ args.count = MaxCount
    /\ log[Len(log)].msg = "Done"
    /\ log[Len(log) - 1].msg = "Got Unexpected Code"

====
